---- MODULE Spec2Model ----
(***************************************************************************)
(* The resilient API access layer of the MCP tool servers: the shared     *)
(* rate limiter, retry_github_request (the copies of mcp-server-1 and     *)
(* mcp-server-6), get_repository_health and compare_repositories.         *)
(*                                                                         *)
(* Time is discrete: one tick is 1/TicksPerSec seconds.  The limiter is   *)
(* aiolimiter's leaky bucket, AsyncLimiter(max_rate, time_period); its    *)
(* level is kept in units of 1/TicksPerPeriod permit, so that it leaks    *)
(* MAX_RATE units per tick and a permit costs TicksPerPeriod units.       *)
(*                                                                         *)
(* An upstream result is a record [exc, status]: exc = "none" for an HTTP *)
(* response with that status, else the kind of exception client.request   *)
(* raised ("timeout": httpx.TimeoutException, "network":                  *)
(* httpx.NetworkError, "other": any other exception) and status = 0.      *)
(***************************************************************************)
EXTENDS Integers, Sequences, FiniteSets, TLC

\* ------------------------------------------------------------ constants
MAX_RETRIES == 3
RETRY_DELAY_BASE == 1
RETRYABLE_STATUS_CODES == {429, 500, 502, 503, 504}
MAX_RATE == 1
TIME_PERIOD == 1
LOW_WATER_SERVER1 == 100
LOW_WATER_SERVER6 == 10

\* --------------------------------------------------------------- bounds
\* ticks per second of the model's clock
TicksPerSec == 2
\* logical calls running concurrently in one process
NumCalls == 2
\* largest value of the max_retries parameter
MaxAttempts == 3

Calls == 1 .. NumCalls
Servers == {1, 6}

Min(a, b) == IF a < b THEN a ELSE b
Max(a, b) == IF a > b THEN a ELSE b

\* len(repositories) of compare_repositories: at least 2, at most 5
MIN_REPOSITORIES == 2
MAX_REPOSITORIES == 5

\* the invocations of a retrying request the state keeps: the concurrent
\* logical calls, and one per task of a comparison
Slots == 1 .. Max(NumCalls, MAX_REPOSITORIES)
Last(s) == s[Len(s)]

\* ----------------------------------------------------- upstream results
Resp(s) == [exc |-> "none", status |-> s]
Exc(k) == [exc |-> k, status |-> 0]
NoResult == [exc |-> "unset", status |-> 0]
\* HTTPStatusError("All retries exhausted", request=None, response=None)
Exhausted == [exc |-> "exhausted", status |-> 0]

SuccessStatuses == {200, 204}
TerminalStatuses == {400, 401, 403, 404, 422, 501}
Responses == {Resp(s) : s \in SuccessStatuses \cup TerminalStatuses \cup RETRYABLE_STATUS_CODES}
TransportExcs == {Exc("timeout"), Exc("network")}
Results == Responses \cup TransportExcs \cup {Exc("other")}

\* the X-RateLimit-Remaining header of a response: absent, or a string that
\* int() parses to value, or a string that int() rejects
NoHeader == [present |-> FALSE, numeric |-> TRUE, value |-> 0]
MalformedHeader == [present |-> TRUE, numeric |-> FALSE, value |-> 0]
Headers == {NoHeader} \cup {[present |-> TRUE, numeric |-> TRUE, value |-> v] : v \in {5, 50, 500}}
AnyHeaders == Headers \cup {MalformedHeader}

IsResponse(r) == r.exc = "none"
IsSuccess(r) == IsResponse(r) /\ r.status >= 200 /\ r.status <= 299
IsRetryableStatus(r) == IsResponse(r) /\ r.status \in RETRYABLE_STATUS_CODES
IsTransportExc(r) == r.exc \in {"timeout", "network"}
IsTransient(r) == IsRetryableStatus(r) \/ IsTransportExc(r)

\* ------------------------------------------------------------- limiter
TicksPerPeriod == TIME_PERIOD * TicksPerSec
PermitCost == TicksPerPeriod
Capacity == MAX_RATE * TicksPerPeriod

\* AsyncLimiter._leak over one tick: the level drains at max_rate/time_period
LeakFast(lvl) == 0
Leak(lvl) == Max(lvl - MAX_RATE, 0)

\* AsyncLimiter.has_capacity(1)
HasCapacityOff(lvl) == TRUE
HasCapacity(lvl) == lvl + PermitCost <= Capacity

\* AsyncLimiter.acquire(1) once there is capacity: the level after it
AcquireFree(lvl) == lvl
Acquire(lvl) == lvl + PermitCost

\* -------------------------------------------------- retry_github_request
\* delay = RETRY_DELAY_BASE * (2 ** attempt), in seconds
BackoffDelayConstant(att) == RETRY_DELAY_BASE
BackoffDelay(att) == RETRY_DELAY_BASE * (2 ^ att)

\* attempt < max_retries - 1
AttemptsRemainOffByOne(att, maxr) == att < maxr
AttemptsRemain(att, maxr) == att < maxr - 1

\* httpx.Response.raise_for_status
RaisesForStatus(r) == ~IsSuccess(r)

\* the try body after the response arrived: "sleep" (backoff, continue),
\* "return", or "HTTPStatusError" (raise_for_status raised)
TryBodySleepAlways(r, att, maxr) ==
    IF r.status \in RETRYABLE_STATUS_CODES
    THEN "sleep"
    ELSE IF RaisesForStatus(r) THEN "HTTPStatusError" ELSE "return"
TryBody(r, att, maxr) ==
    IF r.status \in RETRYABLE_STATUS_CODES /\ AttemptsRemain(att, maxr)
    THEN "sleep"
    ELSE IF RaisesForStatus(r) THEN "HTTPStatusError" ELSE "return"

\* except httpx.HTTPStatusError
ExceptStatus(r, att, maxr) ==
    IF r.status \in RETRYABLE_STATUS_CODES /\ AttemptsRemain(att, maxr)
    THEN "sleep" ELSE "raise"

\* except (httpx.TimeoutException, httpx.NetworkError)
ExceptTransportNoRetry(att, maxr) == "raise"
ExceptTransport(att, maxr) ==
    IF AttemptsRemain(att, maxr) THEN "sleep" ELSE "raise"

\* what one iteration of the loop does with the result of its request
DecideRetryAll(r, att, maxr) ==
    IF IsSuccess(r) THEN "return"
    ELSE IF AttemptsRemain(att, maxr) THEN "sleep" ELSE "raise"
DecideNoRetry(r, att, maxr) ==
    IF IsSuccess(r) THEN "return" ELSE "raise"
Decide(r, att, maxr) ==
    IF IsResponse(r)
    THEN IF TryBody(r, att, maxr) = "HTTPStatusError"
         THEN ExceptStatus(r, att, maxr)
         ELSE TryBody(r, att, maxr)
    ELSE IF IsTransportExc(r) THEN ExceptTransport(att, maxr)
    ELSE "raise"

\* the loop of mcp-server-6.  Its try body has no else branch for the last
\* attempt: a retryable status falls through to raise_for_status
TryBody6(r, att, maxr) ==
    IF r.status \in RETRYABLE_STATUS_CODES
    THEN IF AttemptsRemain(att, maxr) THEN "sleep"
         ELSE IF RaisesForStatus(r) THEN "HTTPStatusError" ELSE "return"
    ELSE IF RaisesForStatus(r) THEN "HTTPStatusError" ELSE "return"

\* except httpx.HTTPStatusError of mcp-server-6: one condition
ExceptStatus6(r, att, maxr) ==
    IF r.status \in RETRYABLE_STATUS_CODES /\ AttemptsRemain(att, maxr)
    THEN "sleep" ELSE "raise"

\* except (httpx.TimeoutException, httpx.NetworkError) of mcp-server-6
ExceptTransport6NoRetry(att, maxr) == "raise"
ExceptTransport6(att, maxr) ==
    IF AttemptsRemain(att, maxr) THEN "sleep" ELSE "raise"

Decide6(r, att, maxr) ==
    IF IsResponse(r)
    THEN IF TryBody6(r, att, maxr) = "HTTPStatusError"
         THEN ExceptStatus6(r, att, maxr)
         ELSE TryBody6(r, att, maxr)
    ELSE IF IsTransportExc(r) THEN ExceptTransport6(att, maxr)
    ELSE "raise"

\* the decision of the copy of the loop that server srv runs
DecideOf(srv, r, att, maxr) ==
    IF srv = 1 THEN Decide(r, att, maxr) ELSE Decide6(r, att, maxr)

\* last_exception after the iteration: server 1 assigns it on entry of
\* both handlers, server 6 only before the handlers' continue
LastException(srv, r, att, maxr, old) ==
    IF srv = 1
    THEN IF IsTransportExc(r) \/ (IsResponse(r) /\ TryBody(r, att, maxr) = "HTTPStatusError")
         THEN r ELSE old
    ELSE IF IsTransportExc(r) /\ ExceptTransport(att, maxr) = "sleep"
         THEN r
         ELSE IF IsResponse(r) /\ TryBody(r, att, maxr) = "HTTPStatusError"
                 /\ ExceptStatus(r, att, maxr) = "sleep"
              THEN r ELSE old

\* int(response.headers.get("X-RateLimit-Remaining", 0)) raises ValueError:
\* server 1 evaluates it when the header is present, server 6 always, with
\* the default 0 for an absent header
HeaderRaises(srv, h) == h.present /\ ~h.numeric

\* the low-quota advisory: server 1 reads the header only when present,
\* server 6 reads it with the default 0
LowQuotaAdvisory(srv, h, hasCtx) ==
    IF srv = 1
    THEN h.present /\ h.value < LOW_WATER_SERVER1 /\ hasCtx
    ELSE (IF h.present THEN h.value ELSE 0) < LOW_WATER_SERVER6 /\ hasCtx

VARIABLES
    server,     \* which copy of utils.py the process runs (1 or 6)
    level,      \* GITHUB_RATE_LIMITER._level
    recent,     \* ages in ticks of the requests issued less than one period ago
    permits,    \* permits acquired from the limiter so far
    sent,       \* requests sent to the upstream API so far
    calls,      \* the logical calls: calls[c] is one invocation of retry_github_request
    health,     \* one invocation of get_repository_health (mcp-server-1)
    cmp,        \* one invocation of compare_repositories (mcp-server-2)
    pager,      \* one paginated fetch loop of a tool
    agent       \* the ai-agent process: trace_log and its /api/query requests

vars == <<server, level, recent, permits, sent, calls, health, cmp, pager, agent>>
others == <<pager, agent>>
tools == <<health, cmp, others>>

\* what leaves a tool operation that failed: nothing yet, the McpError
\* raised by handle_github_error, or the exception itself when no except
\* clause of the tool caught it.  carries tells what of the failure the
\* message holds: "description" (str(error)), "body" (the first 200
\* characters of the response text), "status" (the status code of the
\* response), or "nothing" (a fixed text only)
NotCrossed == [type |-> "none", code |-> 0, kind |-> "none", carries |-> "nothing"]
McpError(code, kind, carries) ==
    [type |-> "McpError", code |-> code, kind |-> kind, carries |-> carries]
Raw(r) == [type |-> r.exc, code |-> 0, kind |-> "none", carries |-> "description"]

\* the header of the last response of a call and whether the advisory was
\* sent for it
NotSeen == [any |-> FALSE, header |-> NoHeader, noted |-> FALSE]

IdleCall ==
    [pc |-> "idle", fn |-> "retry_github_request", max_retries |-> 0, ctx |-> FALSE,
     attempt |-> 0,
     timer |-> 0, since |-> 0, reqs |-> 0, hist |-> <<>>, sleeps |-> <<>>,
     gaps |-> <<>>, last_exception |-> NoResult, retryNotes |-> 0,
     quotaNotes |-> 0, outcome |-> [kind |-> "none", res |-> NoResult],
     crossed |-> NotCrossed, seen |-> NotSeen]

Terminal(k) == k.pc \in {"returned", "raised"}

IdleHealth == [phase |-> "idle", open_prs_ok |-> FALSE, error |-> NoResult]

\* the metrics argument (Optional[List[str]]): None, or the list given
NoMetrics == [given |-> FALSE, names |-> <<>>]
Given(names) == [given |-> TRUE, names |-> names]

IdleCmp ==
    [pc |-> "idle", token |-> FALSE, repositories |-> <<>>, metrics |-> NoMetrics,
     tasks |-> <<>>, overtaken |-> FALSE, results |-> <<>>, notified |-> <<>>,
     code |-> 0, kind |-> "none", cause |-> "none",
     out |-> [metrics |-> <<>>, summary |-> <<>>]]

\* a paginated fetch loop before its tool is called: page is the local
\* variable, requested the pages asked for so far, sizes the number of items
\* of each page received
IdlePager ==
    [pc |-> "idle", kind |-> "none", page |-> 0, requested |-> <<>>, sizes |-> <<>>,
     error |-> NoResult]

\* the ai-agent process after startup: the global trace_log is empty and no
\* /api/query request is being processed.  logged holds the entries the
\* handler of a request passed to log_trace, trace the list it answered with
NumQueries == 2
MaxSteps == 1
Queries == 1 .. NumQueries
IdleQuery == [pc |-> "idle", logged |-> <<>>, trace |-> <<>>]
IdleAgent == [trace_log |-> <<>>, q |-> [r \in Queries |-> IdleQuery]]

Init ==
    /\ server \in Servers
    /\ level = 0
    /\ recent = <<>>
    /\ permits = 0
    /\ sent = 0
    /\ calls = [c \in Slots |-> IdleCall]
    /\ health = IdleHealth
    /\ cmp = IdleCmp
    /\ pager = IdlePager
    /\ agent = IdleAgent

\* the state of a call slot on entry of retry_github_request
Invoked(maxr, hasCtx) ==
    [IdleCall EXCEPT !.pc = "loop", !.max_retries = maxr, !.ctx = hasCtx]

\* retry_github_request(client, method, url, ctx, max_retries) is called
Invoke(c, maxr, hasCtx) ==
    /\ calls[c].pc = "idle"
    /\ calls' = [calls EXCEPT ![c] =
                    Invoked(maxr, hasCtx)]
    /\ UNCHANGED <<server, level, recent, permits, sent, tools>>

\* retry_request(client, method, url, ctx) of mcp-server-1 is called: the
\* same loop over range(MAX_RETRIES), with no max_retries parameter
InvokeRetryRequest(c, hasCtx) ==
    /\ server = 1
    /\ calls[c].pc = "idle"
    /\ calls' = [calls EXCEPT ![c] =
                    [Invoked(MAX_RETRIES, hasCtx) EXCEPT !.fn = "retry_request"]]
    /\ UNCHANGED <<server, level, recent, permits, sent, tools>>

\* the loop ran out of iterations without returning: the call ends as if
\* it had returned None
EndOfLoopSilent(k) == [k EXCEPT !.pc = "returned"]

\* after the loop: raise last_exception if one was kept, else the generic
\* HTTPStatusError("All retries exhausted")
EndOfLoop(k) ==
    [k EXCEPT !.pc = "raised",
              !.outcome = [kind |-> "raise",
                           res |-> IF k.last_exception # NoResult
                                   THEN k.last_exception ELSE Exhausted]]

\* for attempt in range(max_retries): the next iteration takes a permit and
\* issues its request, async with GITHUB_RATE_LIMITER: response = await
\* client.request(...), with no suspension between the two; when no
\* iteration is left the code after the loop runs
Iterate(c) ==
    /\ calls[c].pc = "loop"
    /\ IF calls[c].attempt < calls[c].max_retries
       THEN /\ HasCapacity(level)
            /\ level' = Acquire(level)
            /\ permits' = permits + 1
            /\ sent' = sent + 1
            /\ recent' = Append(recent, 0)
            /\ calls' = [calls EXCEPT ![c] =
                            [@ EXCEPT !.pc = "inflight",
                                      !.reqs = @ + 1,
                                      !.gaps = IF calls[c].attempt = 0 THEN @
                                               ELSE Append(@, calls[c].since)]]
       ELSE /\ calls' = [calls EXCEPT ![c] = EndOfLoop(calls[c])]
            /\ UNCHANGED <<level, recent, permits, sent>>
    /\ UNCHANGED <<server, tools>>

\* retry_github_request looks at X-RateLimit-Remaining of every response,
\* retry_request at no header
ReadsHeader(k) == k.fn = "retry_github_request"

\* the call k after the request of its current attempt ended with result r
\* (header h): the header check, then the decision of the iteration.  A
\* header int() rejects raises ValueError, which no except clause of the
\* loop catches
RespondedOn(srv, k, r, h) ==
    LET d == DecideOf(srv, r, k.attempt, k.max_retries)
        q == IsResponse(r) /\ ReadsHeader(k) /\ LowQuotaAdvisory(srv, h, k.ctx)
        base == [k EXCEPT !.hist = Append(@, r),
                          !.quotaNotes = @ + (IF q THEN 1 ELSE 0),
                          !.seen = IF IsResponse(r) /\ ReadsHeader(k)
                                   THEN [any |-> TRUE, header |-> h, noted |-> q]
                                   ELSE @,
                          !.last_exception =
                              LastException(srv, r, k.attempt, k.max_retries, @)]
    IN  IF IsResponse(r) /\ ReadsHeader(k) /\ HeaderRaises(srv, h)
        THEN [k EXCEPT !.hist = Append(@, r),
                       !.seen = [any |-> TRUE, header |-> h, noted |-> FALSE],
                       !.pc = "raised",
                       !.outcome = [kind |-> "raise", res |-> Exc("ValueError")]]
        ELSE CASE d = "sleep" ->
                    [base EXCEPT !.pc = "sleep",
                                 !.sleeps = Append(@, BackoffDelay(k.attempt)),
                                 !.timer = BackoffDelay(k.attempt) * TicksPerSec,
                                 !.since = 0,
                                 !.retryNotes = @ + (IF k.ctx THEN 1 ELSE 0)]
               [] d = "return" ->
                    [base EXCEPT !.pc = "returned",
                                 !.outcome = [kind |-> "return", res |-> r]]
               [] OTHER ->
                    [base EXCEPT !.pc = "raised",
                                 !.outcome = [kind |-> "raise", res |-> r]]

\* the same in the process this model runs
Responded(k, r, h) == RespondedOn(server, k, r, h)

\* the request of the current attempt ends with result r (header h)
Respond(c, r, h) ==
    /\ calls[c].pc = "inflight"
    /\ calls' = [calls EXCEPT ![c] = Responded(calls[c], r, h)]
    /\ UNCHANGED <<server, level, recent, permits, sent, tools>>

\* asyncio.sleep(delay) is over: continue with the next iteration
Wake(c) ==
    /\ calls[c].pc = "sleep"
    /\ calls[c].timer = 0
    /\ calls' = [calls EXCEPT ![c] = [@ EXCEPT !.pc = "loop", !.attempt = @ + 1]]
    /\ UNCHANGED <<server, level, recent, permits, sent, tools>>

RECURSIVE AgeAll(_)
AgeAll(s) ==
    IF s = <<>> THEN <<>>
    ELSE IF Head(s) + 1 < TicksPerPeriod
         THEN <<Head(s) + 1>> \o AgeAll(Tail(s))
         ELSE AgeAll(Tail(s))

\* one tick of the clock
Tick ==
    /\ level' = Leak(level)
    /\ recent' = AgeAll(recent)
    /\ calls' = [c \in Slots |->
                    IF calls[c].pc \in {"sleep", "loop"} /\ calls[c].sleeps # <<>>
                    THEN [calls[c] EXCEPT
                            !.timer = Max(@ - 1, 0),
                            !.since = Min(@ + 1, Last(calls[c].sleeps) * TicksPerSec)]
                    ELSE calls[c]]
    /\ UNCHANGED <<server, permits, sent, tools>>

\* one logical call, every max_retries, every upstream result
Next ==
    \/ \E m \in 0 .. MaxAttempts, x \in BOOLEAN : Invoke(1, m, x)
    \/ Iterate(1)
    \/ \E r \in Results, h \in Headers : Respond(1, r, h)
    \/ Wake(1)
    \/ Tick

Spec == Init /\ [][Next]_vars
\* one result of each class: success, terminal status, retryable status,
\* transport exception, other exception
LiveResults == {Resp(200), Resp(404), Resp(503), Exc("timeout"), Exc("other")}

NextLive ==
    \/ \E m \in 0 .. MaxAttempts, x \in BOOLEAN : Invoke(1, m, x)
    \/ Iterate(1)
    \/ \E r \in LiveResults, h \in Headers : Respond(1, r, h)
    \/ Wake(1)
    \/ Tick

\* the fairness of the event loop: the clock advances, a runnable coroutine
\* is resumed, a permit that is available is granted, and every request
\* ends with a response or an exception
Fairness ==
    /\ WF_vars(Tick)
    /\ WF_vars(Iterate(1))
    /\ WF_vars(\E r \in LiveResults, h \in Headers : Respond(1, r, h))
    /\ WF_vars(Wake(1))

SpecFair == Init /\ [][NextLive]_vars /\ Fairness

\* the upstream results of the concurrent specification
RateResults == {Resp(200), Resp(503)}

\* NumCalls logical calls in flight in one process on the shared limiter,
\* each with the default max_retries, as the tasks of a comparison run them
NextRate ==
    \/ \E c \in Calls : Invoke(c, MAX_RETRIES, FALSE)
    \/ \E c \in Calls : Iterate(c)
    \/ \E c \in Calls, r \in RateResults : Respond(c, r, NoHeader)
    \/ \E c \in Calls : Wake(c)
    \/ Tick

SpecRate == Init /\ [][NextRate]_vars

\* one call of retry_request, every upstream result and header
NextRetryRequest ==
    \/ \E x \in BOOLEAN : InvokeRetryRequest(1, x)
    \/ Iterate(1)
    \/ \E r \in Results, h \in AnyHeaders : Respond(1, r, h)
    \/ Wake(1)
    \/ Tick

SpecRetryRequest == Init /\ [][NextRetryRequest]_vars

\* two runs of retry_github_request with the same max_retries that receive
\* the same upstream results: call 1 without a sink and without the header,
\* call 2 with or without a sink and with any header
TwinInvoke(maxr, hasCtx) ==
    /\ calls[1].pc = "idle"
    /\ calls[2].pc = "idle"
    /\ calls' = [calls EXCEPT ![1] = Invoked(maxr, FALSE),
                              ![2] = Invoked(maxr, hasCtx)]
    /\ UNCHANGED <<server, level, recent, permits, sent, tools>>

\* the request in flight of run c ends with result r (header h), whatever
\* the other run does.  The two runs are given the same upstream results:
\* the n-th result of a run is the n-th result the other run received, when
\* it has received one; the responses of run 1 carry no header
TwinRespond(c, r, h) ==
    /\ c \in {1, 2}
    /\ calls[c].pc = "inflight"
    /\ c = 1 => h = NoHeader
    /\ LET other == calls[3 - c].hist
           n == Len(calls[c].hist) + 1
       IN  n <= Len(other) => r = other[n]
    /\ calls' = [calls EXCEPT ![c] = Responded(calls[c], r, h)]
    /\ UNCHANGED <<server, level, recent, permits, sent, tools>>

NextTwin ==
    \/ \E m \in 0 .. MaxAttempts, x \in BOOLEAN : TwinInvoke(m, x)
    \/ \E c \in {1, 2} : Iterate(c)
    \/ \E c \in {1, 2}, r \in LiveResults, h \in AnyHeaders : TwinRespond(c, r, h)
    \/ \E c \in {1, 2} : Wake(c)
    \/ Tick

SpecTwin == Init /\ [][NextTwin]_vars

\* the two copies side by side: call 1 is retry_github_request of
\* mcp-server-1, call 2 the one of mcp-server-6, each in its own process with
\* its own limiter, started with the same arguments and driven in step by
\* the same upstream results.  level is the level of either limiter, permits
\* and sent count per process
Copies == {1, 2}
CopyServer(c) == IF c = 1 THEN 1 ELSE 6

PairInvoke(maxr, hasCtx) ==
    /\ \A c \in Copies : calls[c].pc = "idle"
    /\ calls' = [c \in Slots |-> IF c \in Copies THEN Invoked(maxr, hasCtx)
                                 ELSE calls[c]]
    /\ UNCHANGED <<server, level, recent, permits, sent, tools>>

\* every copy that is at the head of its loop takes its next iteration, or
\* leaves the loop when none is left
PairIterate ==
    /\ \E c \in Copies : calls[c].pc = "loop"
    /\ LET heads == {c \in Copies : calls[c].pc = "loop"}
           more == {c \in heads : calls[c].attempt < calls[c].max_retries}
       IN  /\ calls' = [c \in Slots |->
                           IF c \in more
                           THEN [calls[c] EXCEPT
                                    !.pc = "inflight",
                                    !.reqs = @ + 1,
                                    !.gaps = IF calls[c].attempt = 0 THEN @
                                             ELSE Append(@, calls[c].since)]
                           ELSE IF c \in heads THEN EndOfLoop(calls[c])
                           ELSE calls[c]]
           /\ IF more # {}
              THEN /\ HasCapacity(level)
                   /\ level' = Acquire(level)
                   /\ permits' = permits + 1
                   /\ sent' = sent + 1
                   /\ recent' = Append(recent, 0)
              ELSE UNCHANGED <<level, recent, permits, sent>>
    /\ UNCHANGED <<server, tools>>

\* the requests in flight end with the same result r and header h
PairRespond(r, h) ==
    /\ \E c \in Copies : calls[c].pc = "inflight"
    /\ calls' = [c \in Slots |->
                    IF c \in Copies /\ calls[c].pc = "inflight"
                    THEN RespondedOn(CopyServer(c), calls[c], r, h)
                    ELSE calls[c]]
    /\ UNCHANGED <<server, level, recent, permits, sent, tools>>

\* the sleeps that are over end
PairWake ==
    /\ \E c \in Copies : calls[c].pc = "sleep" /\ calls[c].timer = 0
    /\ calls' = [c \in Slots |->
                    IF c \in Copies /\ calls[c].pc = "sleep" /\ calls[c].timer = 0
                    THEN [calls[c] EXCEPT !.pc = "loop", !.attempt = @ + 1]
                    ELSE calls[c]]
    /\ UNCHANGED <<server, level, recent, permits, sent, tools>>

\* one result of each class, one more retryable status so that a run can see
\* two different ones, and the header absent, low for both servers, low for
\* server 1 only, and malformed
PairResults == LiveResults \cup {Resp(429)}
PairHeaders == {NoHeader, MalformedHeader}
                   \cup {[present |-> TRUE, numeric |-> TRUE, value |-> v] : v \in {5, 50}}

NextPair ==
    \/ \E m \in 0 .. MaxAttempts, x \in BOOLEAN : PairInvoke(m, x)
    \/ PairIterate
    \/ \E r \in PairResults, h \in PairHeaders : PairRespond(r, h)
    \/ PairWake
    \/ Tick

SpecPair == Init /\ [][NextPair]_vars

\* ------------------------------------------------- get_repository_health
\* get_repository_health(owner, repo, ctx): _require_env_vars, then the
\* metadata request through retry_github_request
HealthCall(token) ==
    /\ health.phase = "idle"
    /\ IF token
       THEN /\ health' = [health EXCEPT !.phase = "meta"]
            /\ calls' = [calls EXCEPT ![1] = Invoked(MAX_RETRIES, TRUE)]
       ELSE /\ health' = [health EXCEPT !.phase = "error", !.error = Exc("ValueError")]
            /\ UNCHANGED calls
    /\ UNCHANGED <<server, level, recent, permits, sent, cmp, others>>

\* the metadata call ended; on success the open issues are requested with
\* client.get, outside retry_github_request and outside the limiter
HealthIssues ==
    /\ health.phase = "meta"
    /\ Terminal(calls[1])
    /\ IF calls[1].pc = "returned"
       THEN /\ health' = [health EXCEPT !.phase = "issues"]
            /\ sent' = sent + 1
            /\ recent' = Append(recent, 0)
       ELSE /\ health' = [health EXCEPT !.phase = "error", !.error = calls[1].outcome.res]
            /\ UNCHANGED <<sent, recent>>
    /\ UNCHANGED <<server, level, permits, calls, cmp, others>>

\* the issues request ends with result r: issues_response.raise_for_status(),
\* then the open-PR search through retry_github_request
HealthIssuesRespond(r) ==
    /\ health.phase = "issues"
    /\ IF IsResponse(r) /\ ~RaisesForStatus(r)
       THEN /\ health' = [health EXCEPT !.phase = "prs"]
            /\ calls' = [calls EXCEPT ![1] = Invoked(MAX_RETRIES, TRUE)]
       ELSE /\ health' = [health EXCEPT !.phase = "error", !.error = r]
            /\ UNCHANGED calls
    /\ UNCHANGED <<server, level, recent, permits, sent, cmp, others>>

\* the open-PR search ended; its failure is swallowed (open_prs_count = 0);
\* then the last commit through retry_github_request
HealthCommits ==
    /\ health.phase = "prs"
    /\ Terminal(calls[1])
    /\ health' = [health EXCEPT !.phase = "commits",
                                !.open_prs_ok = (calls[1].pc = "returned")]
    /\ calls' = [calls EXCEPT ![1] = Invoked(MAX_RETRIES, TRUE)]
    /\ UNCHANGED <<server, level, recent, permits, sent, cmp, others>>

\* the last-commit call ended: the ToolResult, or handle_github_error
HealthReturn ==
    /\ health.phase = "commits"
    /\ Terminal(calls[1])
    /\ health' = IF calls[1].pc = "returned"
                 THEN [health EXCEPT !.phase = "done"]
                 ELSE [health EXCEPT !.phase = "error", !.error = calls[1].outcome.res]
    /\ UNCHANGED <<server, level, recent, permits, sent, calls, cmp, others>>

HealthResults == {Resp(200), Resp(404), Resp(503), Exc("timeout")}

InitHealth == Init /\ server = 1

NextHealth ==
    \/ \E token \in BOOLEAN : HealthCall(token)
    \/ HealthIssues
    \/ \E r \in HealthResults : HealthIssuesRespond(r)
    \/ HealthCommits
    \/ HealthReturn
    \/ Iterate(1)
    \/ \E r \in HealthResults, h \in Headers : Respond(1, r, h)
    \/ Wake(1)
    \/ Tick

SpecHealth == InitHealth /\ [][NextHealth]_vars

\* --------------------------------------------------- compare_repositories
NO_DATA_AGE == 9999
INVALID_PARAMS == -32602
INTERNAL_ERROR == -32603

\* longest repositories list submitted
MaxListLen == 6
\* longest list submitted with a repeated target or with a malformed item
MaxOddLen == 3

\* a repositories item: name stands for its "owner/repo", keys tells
\* whether the dict holds both the 'owner' and the 'repo' key, upstream what
\* the upstream API answers for this "owner/repo": "there" (every request
\* succeeds), "missing" (404 to every request), "down" (503 to every
\* request), "bare" (the metadata is there, the search answers 404 and the
\* commits 503), "flaky" (any request succeeds or gets 503)
UpstreamKinds == {"there", "missing", "down", "bare", "flaky"}
Repo(n) == [name |-> n, keys |-> TRUE, upstream |-> "there"]
DistinctList(n) == [i \in 1 .. n |-> Repo(i)]
DuplicateList(n) == [i \in 1 .. n |-> IF i = n THEN Repo(1) ELSE Repo(i)]
MalformedList(n) ==
    [i \in 1 .. n |-> IF i = n THEN [Repo(i) EXCEPT !.keys = FALSE] ELSE Repo(i)]
\* the list of the repositories 1 .. Len(kinds), the i-th of kind kinds[i]
ListOfKinds(kinds) == [i \in 1 .. Len(kinds) |-> [Repo(i) EXCEPT !.upstream = kinds[i]]]
\* the lists with a target the upstream fails for: the pairs of kinds with
\* at most one flaky target, and the lists of one more target, one of them
\* missing
TroubledLists ==
    {ListOfKinds(<<a, b>>) : a \in UpstreamKinds, b \in UpstreamKinds \ {"flaky"}}
        \cup {ListOfKinds([i \in 1 .. MIN_REPOSITORIES + 1 |->
                              IF i = m THEN "missing" ELSE "there"]) :
                 m \in 1 .. MIN_REPOSITORIES + 1}
RepoLists ==
    {DistinctList(n) : n \in 0 .. MaxListLen}
        \cup {DuplicateList(n) : n \in 2 .. MaxOddLen}
        \cup {MalformedList(n) : n \in 1 .. MaxOddLen}
        \cup TroubledLists

DefaultMetrics == <<"open_issues", "open_prs", "stars", "forks", "watchers", "last_commit_age">>
MetricChoices == {NoMetrics, Given(<<>>), Given(<<"stars", "last_commit_age">>)}
\* the calls submitted: every list with no metrics argument, the lists of
\* at most MaxOddLen targets with every choice of metrics
CmpInputs ==
    {x \in RepoLists \X MetricChoices : x[2] = NoMetrics \/ Len(x[1]) <= MaxOddLen}

\* what the upstream holds for the repository named n: the fields of
\* /repos/{owner}/{repo}, total_count of the open-PR search, and the age in
\* days of the last commit.  Repository 1 has 100 stars and a commit 2 days
\* old, repository 2 has 500 stars and a commit 30 days old, repository 3
\* has a commit made today; repositories 2 and 4 tie on stars, 1 and 4 on age
PayloadOf(n) ==
    [stargazers_count |-> IF n % 2 = 1 THEN 100 ELSE 500,
     forks_count |-> 7 + (n % 3),
     watchers_count |-> 3,
     open_issues_count |-> 10 + n,
     total_count |-> n,
     age |-> <<2, 30, 0>>[((n - 1) % 3) + 1]]

NoData ==
    [open_issues_count |-> 0, open_prs_count |-> 0, stars_count |-> 0,
     forks_count |-> 0, watchers_count |-> 0, last_commit_age_days |-> <<>>]

PendingTask(repo) ==
    [st |-> "pending", name |-> repo.name, data |-> NoData, err |-> NoResult,
     reqs |-> 0, subcalls |-> <<>>]

\* one sub-call of fetch_repository_data ended with the outcome run: the
\* task t of a repository with payload p after it.  Len(t.subcalls) tells
\* which sub-call it was: the metadata (a failure ends the task), the
\* open-PR search (a failure gives 0), the last commit (a failure gives no
\* age); data holds the locals repo_data, open_prs_count and, at the end,
\* the dict returned
AfterSubCallStrict(t, run, p) ==
    IF run.outcome.kind = "return"
    THEN [t EXCEPT !.reqs = @ + run.reqs,
                   !.subcalls = Append(@, <<"meta", "prs", "commits">>[Len(t.subcalls) + 1]),
                   !.st = IF Len(t.subcalls) = 2 THEN "succeeded" ELSE @,
                   !.data = IF Len(t.subcalls) = 1
                            THEN [@ EXCEPT !.open_prs_count = p.total_count]
                            ELSE IF Len(t.subcalls) = 2
                            THEN [@ EXCEPT !.last_commit_age_days = <<p.age>>]
                            ELSE @]
    ELSE [t EXCEPT !.reqs = @ + run.reqs,
                   !.subcalls = Append(@, <<"meta", "prs", "commits">>[Len(t.subcalls) + 1]),
                   !.st = "failed",
                   !.err = run.outcome.res]
AfterSubCall(t, run, p) ==
    LET ok == run.outcome.kind = "return"
        u == [t EXCEPT !.reqs = @ + run.reqs]
    IN  CASE Len(t.subcalls) = 0 ->
               IF ok
               THEN [u EXCEPT !.subcalls = <<"meta">>,
                              !.data = [NoData EXCEPT
                                  !.open_issues_count = p.open_issues_count,
                                  !.stars_count = p.stargazers_count,
                                  !.forks_count = p.forks_count,
                                  !.watchers_count = p.watchers_count]]
               ELSE [u EXCEPT !.subcalls = <<"meta">>, !.st = "failed",
                              !.err = run.outcome.res]
          [] Len(t.subcalls) = 1 ->
               [u EXCEPT !.subcalls = Append(@, "prs"),
                         !.data.open_prs_count = IF ok THEN p.total_count ELSE 0]
          [] OTHER ->
               [u EXCEPT !.subcalls = Append(@, "commits"),
                         !.st = "succeeded",
                         !.data.open_issues_count = Max(0, @ - t.data.open_prs_count),
                         !.data.last_commit_age_days = IF ok THEN <<p.age>> ELSE <<>>]

\* a Python dict as the sequence of its items in insertion order
DictKeys(d) == {d[i].key : i \in 1 .. Len(d)}
DictSet(d, k, v) ==
    IF k \in DictKeys(d)
    THEN [i \in 1 .. Len(d) |-> IF d[i].key = k THEN [key |-> k, val |-> v] ELSE d[i]]
    ELSE Append(d, [key |-> k, val |-> v])
\* the position of key k in d
DictGet(d, k) == CHOOSE i \in 1 .. Len(d) : d[i].key = k

\* the validation of compare_repositories: "ok" or the ValueError raised
LengthOkNoCeiling(n) == n >= MIN_REPOSITORIES
LengthOk(n) == n >= MIN_REPOSITORIES /\ n <= MAX_REPOSITORIES

Validate(token, repositories) ==
    IF ~token THEN "env"
    ELSE IF ~LengthOk(Len(repositories)) THEN "length"
    ELSE IF \E i \in 1 .. Len(repositories) : ~repositories[i].keys THEN "keys"
    ELSE "ok"

\* repo_data.get(<field of the metric>): <<>> for a metric name the code
\* does not know
MetricValue(metric, data) ==
    CASE metric = "open_issues" -> <<data.open_issues_count>>
      [] metric = "open_prs" -> <<data.open_prs_count>>
      [] metric = "stars" -> <<data.stars_count>>
      [] metric = "forks" -> <<data.forks_count>>
      [] metric = "watchers" -> <<data.watchers_count>>
      [] metric = "last_commit_age" ->
            IF data.last_commit_age_days = <<>> \/ data.last_commit_age_days[1] = 0
            THEN <<NO_DATA_AGE>> ELSE data.last_commit_age_days
      [] OTHER -> <<>>

\* comparison_metrics[metric] over repo_data_list[1..n]: failed entries are
\* skipped
RECURSIVE MetricColumnAll(_, _, _)
MetricColumnAll(metric, results, n) ==
    IF n = 0 THEN <<>>
    ELSE LET d == MetricColumnAll(metric, results, n - 1)
             v == MetricValue(metric, results[n].data)
         IN  IF v = <<>> THEN d
             ELSE DictSet(d, results[n].name, v[1])
RECURSIVE MetricColumn(_, _, _)
MetricColumn(metric, results, n) ==
    IF n = 0 THEN <<>>
    ELSE LET d == MetricColumn(metric, results, n - 1)
             v == MetricValue(metric, results[n].data)
         IN  IF results[n].st = "failed" \/ v = <<>> THEN d
             ELSE DictSet(d, results[n].name, v[1])

\* metrics or [the six default names]: None and the empty list are falsy
MetricsToCompareAlways(metrics) == DefaultMetrics
MetricsToCompare(metrics) ==
    IF ~metrics.given \/ metrics.names = <<>> THEN DefaultMetrics ELSE metrics.names

RECURSIVE ComparisonMetrics(_, _, _)
ComparisonMetrics(names, results, n) ==
    IF n = 0 THEN <<>>
    ELSE DictSet(ComparisonMetrics(names, results, n - 1), names[n],
                 MetricColumn(names[n], results, Len(results)))

SeqMin(d) == CHOOSE v \in {d[i].val : i \in 1 .. Len(d)} :
                 \A i \in 1 .. Len(d) : v <= d[i].val
SeqMax(d) == CHOOSE v \in {d[i].val : i \in 1 .. Len(d)} :
                 \A i \in 1 .. Len(d) : v >= d[i].val
\* [repo for repo, x in column.items() if x == best][0]
FirstWithLast(d, best) == d[CHOOSE i \in 1 .. Len(d) :
                            d[i].val = best /\ \A j \in i + 1 .. Len(d) : d[j].val # best].key
FirstWith(d, best) == d[CHOOSE i \in 1 .. Len(d) :
                            d[i].val = best /\ \A j \in 1 .. i - 1 : d[j].val # best].key

\* the summary: raised tells that min()/max() met an empty column (ValueError)
Leaders == <<[metric |-> "last_commit_age", entry |-> "most_active", least |-> TRUE],
             [metric |-> "stars", entry |-> "most_popular", least |-> FALSE],
             [metric |-> "forks", entry |-> "most_forked", least |-> FALSE]>>

RECURSIVE Summary(_, _)
Summary(cm, n) ==
    IF n = 0 THEN [raised |-> FALSE, summary |-> <<>>]
    ELSE LET prev == Summary(cm, n - 1)
             l == Leaders[n]
         IN  IF prev.raised \/ l.metric \notin DictKeys(cm) THEN prev
             ELSE LET column == cm[DictGet(cm, l.metric)].val
                  IN  IF column = <<>> THEN [raised |-> TRUE, summary |-> prev.summary]
                      ELSE [raised |-> FALSE,
                            summary |-> DictSet(prev.summary, l.entry,
                                FirstWith(column, IF l.least THEN SeqMin(column)
                                                  ELSE SeqMax(column)))]

\* the except ValueError clause of compare_repositories: every ValueError of
\* the try block, the one of _require_env_vars included, leaves as
\* McpError(code=-32602, message="Ошибка валидации параметров: {e}")
ExceptValueError(cause) == McpError(INVALID_PARAMS, "validation", "description")

\* compare_repositories(repositories, metrics, ctx): the validation; a
\* ValueError ends the call with McpError(code=-32602), else one
\* fetch_repository_data task per item is handed to asyncio.gather
CmpCall(token, repositories, metrics) ==
    /\ cmp.pc = "idle"
    /\ LET v == Validate(token, repositories)
           base == [IdleCmp EXCEPT !.token = token, !.repositories = repositories,
                                       !.metrics = metrics]
       IN  IF v = "ok"
           THEN /\ cmp' = [base EXCEPT !.pc = "gather",
                                       !.tasks = [i \in 1 .. Len(repositories) |->
                                                     PendingTask(repositories[i])]]
                /\ calls' = [c \in Slots |->
                                IF c <= Len(repositories) THEN Invoked(MAX_RETRIES, FALSE)
                                ELSE calls[c]]
           ELSE /\ cmp' = [base EXCEPT !.pc = "error", !.code = ExceptValueError(v).code,
                                       !.kind = ExceptValueError(v).kind, !.cause = v]
                /\ UNCHANGED calls
    /\ UNCHANGED <<server, level, recent, permits, sent, health, others>>

\* task i ends while a task created before it is still running
Overtakes(tasks, i) == \E j \in 1 .. i - 1 : tasks[j].st = "pending"

\* the request of the current attempt of task i ends with result r (header
\* h).  Task i runs its sub-calls in slot i: while the retry loop goes on
\* only the slot changes; when retry_github_request returned or raised,
\* fetch_repository_data takes the outcome and either calls
\* retry_github_request for its next sub-call or ends
TaskRespond(i, r, h) ==
    /\ cmp.pc = "gather"
    /\ i \in 1 .. Len(cmp.tasks)
    /\ cmp.tasks[i].st = "pending"
    /\ calls[i].pc = "inflight"
    /\ LET k == Responded(calls[i], r, h)
           t == AfterSubCall(cmp.tasks[i], [reqs |-> k.reqs, outcome |-> k.outcome],
                             PayloadOf(cmp.repositories[i].name))
       IN  IF Terminal(k)
           THEN /\ cmp' = [cmp EXCEPT !.tasks[i] = t,
                                      !.overtaken = @ \/ (t.st # "pending"
                                                            /\ Overtakes(cmp.tasks, i))]
                /\ calls' = [calls EXCEPT ![i] = IF t.st = "pending"
                                                 THEN Invoked(MAX_RETRIES, FALSE)
                                                 ELSE IdleCall]
           ELSE /\ calls' = [calls EXCEPT ![i] = k]
                /\ UNCHANGED cmp
    /\ UNCHANGED <<server, level, recent, permits, sent, health, others>>

\* ctx.error for every result that is an exception, in the order of the list
RECURSIVE ErrorNotes(_, _)
ErrorNotes(results, n) ==
    IF n = 0 THEN <<>>
    ELSE IF results[n].st = "failed"
         THEN Append(ErrorNotes(results, n - 1), results[n].name)
         ELSE ErrorNotes(results, n - 1)

\* asyncio.gather(*tasks, return_exceptions=True) returns when every task
\* has ended, with a result or with the exception it raised
GatherFailFast(tasks) ==
    \/ \E i \in 1 .. Len(tasks) : tasks[i].st = "failed"
    \/ \A i \in 1 .. Len(tasks) : tasks[i].st # "pending"
GatherDone(tasks) == \A i \in 1 .. Len(tasks) : tasks[i].st # "pending"

\* the list asyncio.gather returns: the result or the exception of each
\* awaitable, in the order the awaitables were passed
GatherResultsReversed(tasks) == [i \in 1 .. Len(tasks) |-> tasks[Len(tasks) + 1 - i]]
GatherResults(tasks) == [i \in 1 .. Len(tasks) |-> tasks[i]]

\* gather returned: repo_data_list, comparison_metrics, summary, the result
CmpAggregate ==
    /\ cmp.pc = "gather"
    /\ GatherDone(cmp.tasks)
    /\ LET names == MetricsToCompare(cmp.metrics)
           results == GatherResults(cmp.tasks)
           cm == ComparisonMetrics(names, results, Len(names))
           sm == Summary(cm, Len(Leaders))
           noted == [cmp EXCEPT !.results = results,
                                !.notified = ErrorNotes(results, Len(results))]
       IN  cmp' = IF sm.raised
                  THEN [noted EXCEPT !.pc = "error",
                                     !.code = ExceptValueError("ValueError").code,
                                     !.kind = ExceptValueError("ValueError").kind,
                                     !.cause = "ValueError"]
                  ELSE [noted EXCEPT !.pc = "done",
                                     !.out = [metrics |-> cm, summary |-> sm.summary]]
    /\ UNCHANGED <<server, level, recent, permits, sent, calls, health, others>>

InitCmp == Init /\ server = 1

\* what the upstream can answer to a request of sub-call sub (1 the
\* metadata, 2 the open-PR search, 3 the last commit) for a repository of the
\* kind given
Upstream(kind, sub) ==
    CASE kind = "there" -> {Resp(200)}
      [] kind = "missing" -> {Resp(404)}
      [] kind = "down" -> {Resp(503)}
      [] kind = "bare" -> {<<Resp(200), Resp(404), Resp(503)>>[sub]}
      [] OTHER -> {Resp(200), Resp(503)}

\* the results the request in flight of task i can end with
TaskResults(i) ==
    IF cmp.pc = "gather" /\ i <= Len(cmp.tasks) /\ cmp.tasks[i].st = "pending"
    THEN Upstream(cmp.repositories[i].upstream, Len(cmp.tasks[i].subcalls) + 1)
    ELSE {}

\* the upstream answers the request in flight of task i
TaskAnswered(i) == \E r \in TaskResults(i) : TaskRespond(i, r, NoHeader)

NextCmp ==
    \/ \E token \in BOOLEAN, x \in CmpInputs : CmpCall(token, x[1], x[2])
    \/ \E i \in 1 .. MAX_REPOSITORIES : Iterate(i)
    \/ \E i \in 1 .. MAX_REPOSITORIES : TaskAnswered(i)
    \/ \E i \in 1 .. MAX_REPOSITORIES : Wake(i)
    \/ Tick
    \/ CmpAggregate

SpecCmp == InitCmp /\ [][NextCmp]_vars

\* ------------------------------------------------------ the tool boundary
\* isinstance(error, httpx.HTTPStatusError): a response with an error
\* status, or the error raised after the loop with response=None
IsHTTPStatusError(r) == IsResponse(r) \/ r = Exhausted
\* error.response.status_code if error.response else 0
StatusOf(r) == IF IsResponse(r) THEN r.status ELSE 0

\* format_api_error(response_text, status_code) of mcp-server-1: the
\* message it picks, by its kind
FormatApiError(status_code) ==
    IF status_code = 401 THEN "authentication"
    ELSE IF status_code = 403 THEN "authorization"
    ELSE IF status_code = 404 THEN "not_found"
    ELSE IF status_code = 429 THEN "rate_limited"
    ELSE IF status_code >= 500 THEN "server"
    ELSE "api"

\* the message mcp-server-6 picks for an HTTPStatusError, by its kind
HttpMessageServer6(status_code) ==
    IF status_code = 404 THEN "not_found"
    ELSE IF status_code = 403 THEN "authorization"
    ELSE IF status_code = 401 THEN "authentication"
    ELSE IF status_code = 429 THEN "rate_limited"
    ELSE "http"

\* what the message of an HTTPStatusError holds of the failure.  Server 1:
\* format_api_error puts response_text[:200] into its last message, the
\* status code into the 5xx message and neither into the others; the text
\* is "" when the error has no response.  Server 6: the last message holds
\* status_code, which is 0 when the error has no response, and str(e) is
\* overwritten in every branch
HttpMessageCarries(srv, r) ==
    IF srv = 1
    THEN IF FormatApiError(StatusOf(r)) = "api"
         THEN (IF IsResponse(r) THEN "body" ELSE "nothing")
         ELSE IF FormatApiError(StatusOf(r)) = "server" THEN "status" ELSE "nothing"
    ELSE IF HttpMessageServer6(StatusOf(r)) = "http"
         THEN (IF IsResponse(r) THEN "status" ELSE "nothing")
         ELSE "nothing"

\* handle_github_error(error, ctx, operation): the McpError it raises
HandleGithubError(srv, r) ==
    IF IsHTTPStatusError(r)
    THEN IF srv = 1
         THEN McpError(IF StatusOf(r) \in {400, 401, 403, 404}
                       THEN INVALID_PARAMS ELSE INTERNAL_ERROR,
                       FormatApiError(StatusOf(r)),
                       HttpMessageCarries(srv, r))
         ELSE McpError(INTERNAL_ERROR, HttpMessageServer6(StatusOf(r)),
                       HttpMessageCarries(srv, r))
    ELSE IF r.exc = "timeout" THEN McpError(INTERNAL_ERROR, "timeout", "nothing")
    ELSE IF r.exc = "network" THEN McpError(INTERNAL_ERROR, "network", "nothing")
    ELSE McpError(INTERNAL_ERROR, "unexpected", "description")

\* the except clause of the tool that catches r: the four clauses of
\* mcp-server-1's tools; the other servers' tools have the last one only
ExceptClauseStatusOnly(r) ==
    IF IsHTTPStatusError(r) THEN "HTTPStatusError" ELSE "none"
ExceptClause(r) ==
    IF IsHTTPStatusError(r) THEN "HTTPStatusError"
    ELSE IF r.exc = "timeout" THEN "TimeoutException"
    ELSE IF r.exc = "network" THEN "NetworkError"
    ELSE "Exception"

\* what leaves the tool when its upstream call raised r: every clause
\* awaits handle_github_error
ToolBoundary(srv, r) ==
    IF ExceptClause(r) = "none" THEN Raw(r) ELSE HandleGithubError(srv, r)

\* the upstream call of a tool operation raised: the tool's except clauses
ToolEnd(c) ==
    /\ calls[c].pc = "raised"
    /\ calls[c].crossed = NotCrossed
    /\ calls' = [calls EXCEPT ![c].crossed = ToolBoundary(server, calls[c].outcome.res)]
    /\ UNCHANGED <<server, level, recent, permits, sent, tools>>

\* a tool operation with one upstream call, as get_repository_contributors:
\* retry_github_request(client, "GET", url, ctx=ctx) with the default
\* max_retries, then the tool's except clauses
NextTool ==
    \/ Invoke(1, MAX_RETRIES, TRUE)
    \/ Iterate(1)
    \/ \E r \in Results, h \in Headers : Respond(1, r, h)
    \/ Wake(1)
    \/ Tick
    \/ ToolEnd(1)

SpecTool == Init /\ [][NextTool]_vars

\* handle_github_error on every failure retry_github_request can end with,
\* the one raised after a loop of no iteration (max_retries <= 0) included
HandleResults == LiveResults \cup {Resp(422)}

NextHandle ==
    \/ \E m \in 0 .. MaxAttempts, x \in BOOLEAN : Invoke(1, m, x)
    \/ Iterate(1)
    \/ \E r \in HandleResults : Respond(1, r, NoHeader)
    \/ Wake(1)
    \/ Tick
    \/ ToolEnd(1)

SpecHandle == Init /\ [][NextHandle]_vars

\* ------------------------------------- the fan-out, request by request
\* most targets of a comparison whose tasks are followed under fairness
MaxFanTargets == 3

FanLists == {DistinctList(n) : n \in MIN_REPOSITORIES .. MaxFanTargets} \cup TroubledLists

NextFan ==
    \/ \E l \in FanLists : CmpCall(TRUE, l, NoMetrics)
    \/ \E i \in 1 .. MaxFanTargets : Iterate(i)
    \/ \E i \in 1 .. MaxFanTargets : TaskAnswered(i)
    \/ \E i \in 1 .. MaxFanTargets : Wake(i)
    \/ Tick
    \/ CmpAggregate

\* the clock advances, the event loop resumes every task that can run, a
\* permit that is available is granted, and every request ends
FanFairness ==
    /\ WF_vars(Tick)
    /\ \A i \in 1 .. MaxFanTargets :
          /\ WF_vars(Iterate(i))
          /\ WF_vars(TaskAnswered(i))
          /\ WF_vars(Wake(i))

SpecFan == InitCmp /\ [][NextFan]_vars /\ FanFairness

\* ------------------------------------------------ the paginated fetches
\* per_page of the paginated requests and the number of pages the loops stop
\* at
PER_PAGE == 100
PAGE_LIMIT == 10

\* the loops: get_issues_summary (mcp-server-1), get_commit_statistics,
\* get_developer_activity, get_branch_analysis (mcp-server-3)
PagerKinds == {"issues", "commits", "activity", "branches"}

\* the sizes a page can have: empty, short, full
PageSizes == {0, 1, PER_PAGE}

\* after a page of n items was received as page number page: does the loop
\* ask for the next page.  The issues loop has no test for an empty page, the
\* others break on it; the activity loop tests page <= 10 at its head, the
\* others break after page += 1 when page > 10
ContinueAfterOneMore(kind, page, n) ==
    n >= PER_PAGE /\ page + 1 <= PAGE_LIMIT + 1
ContinueAfter(kind, page, n) ==
    IF kind = "issues"
    THEN IF n < PER_PAGE THEN FALSE ELSE ~(page + 1 > PAGE_LIMIT)
    ELSE IF n = 0 THEN FALSE
    ELSE IF n < PER_PAGE THEN FALSE
    ELSE IF kind = "activity" THEN page + 1 <= PAGE_LIMIT
    ELSE ~(page + 1 > PAGE_LIMIT)

\* the local page after the iteration that received n items as page number
\* page: a break on a short page leaves it, else page += 1 runs, also when the
\* loop then stops at the limit
PageAfter(kind, page, n) ==
    IF n < PER_PAGE THEN page ELSE page + 1

\* the tool is called: page = 1 and the loop asks for the first page
\* through retry_github_request with ctx
PagerStart(kind) ==
    /\ pager.pc = "idle"
    /\ calls[1].pc = "idle"
    /\ pager' = [IdlePager EXCEPT !.pc = "fetch", !.kind = kind, !.page = 1,
                                  !.requested = <<1>>]
    /\ calls' = [calls EXCEPT ![1] = Invoked(MAX_RETRIES, TRUE)]
    /\ UNCHANGED <<server, level, recent, permits, sent, health, cmp, agent>>

\* the request of the current attempt for the current page ends with result
\* r (header h), a page of n items when it is a success.  While the retry
\* loop goes on only the slot changes; a failure of retry_github_request
\* leaves the loop of pages; else the page is taken and the loop asks for
\* the next page or stops
PageRespond(r, h, n) ==
    /\ pager.pc = "fetch"
    /\ calls[1].pc = "inflight"
    /\ LET k == Responded(calls[1], r, h)
       IN  IF ~Terminal(k)
           THEN /\ calls' = [calls EXCEPT ![1] = k]
                /\ UNCHANGED pager
           ELSE IF k.pc = "raised"
           THEN /\ pager' = [pager EXCEPT !.pc = "raised", !.error = k.outcome.res]
                /\ calls' = [calls EXCEPT ![1] = IdleCall]
           ELSE IF ContinueAfter(pager.kind, pager.page, n)
           THEN /\ pager' = [pager EXCEPT !.sizes = Append(@, n),
                                          !.page = PageAfter(pager.kind, pager.page, n),
                                          !.requested =
                                              Append(@, PageAfter(pager.kind, pager.page, n))]
                /\ calls' = [calls EXCEPT ![1] = Invoked(MAX_RETRIES, TRUE)]
           ELSE /\ pager' = [pager EXCEPT !.sizes = Append(@, n),
                                          !.page = PageAfter(pager.kind, pager.page, n),
                                          !.pc = "done"]
                /\ calls' = [calls EXCEPT ![1] = IdleCall]
    /\ UNCHANGED <<server, level, recent, permits, sent, health, cmp, agent>>

\* the upstream results of the request of a page
PageResults == {Resp(200), Resp(404), Resp(503)}

NextPages ==
    \/ \E kind \in PagerKinds : PagerStart(kind)
    \/ Iterate(1)
    \/ \E r \in PageResults, n \in PageSizes : PageRespond(r, NoHeader, n)
    \/ Wake(1)
    \/ Tick

\* the clock advances, a permit that is available is granted, every request
\* ends with a response or an exception, and a sleep that is over ends
PagesFairness ==
    /\ WF_vars(Tick)
    /\ WF_vars(Iterate(1))
    /\ WF_vars(\E r \in PageResults, n \in PageSizes : PageRespond(r, NoHeader, n))
    /\ WF_vars(Wake(1))

SpecPages == Init /\ [][NextPages]_vars /\ PagesFairness

\* ------------------------------------------------------ ai-agent /api/query
\* log_trace(entry_type, ...) called by the handler of request r: the entry
\* is appended to the global trace_log
RECURSIVE LogTrace(_, _, _)
LogTrace(a, r, types) ==
    IF types = <<>> THEN a
    ELSE LET e == [req |-> r, n |-> Len(a.q[r].logged) + 1, type |-> Head(types)]
         IN  LogTrace([a EXCEPT !.trace_log = Append(@, e),
                                !.q[r].logged = Append(@, e)],
                      r, Tail(types))

\* clear_trace()
ClearTrace(a) == [a EXCEPT !.trace_log = <<>>]

\* the list built from trace_log for the response of request r
AnswerTrace(a, r, pc) == [a EXCEPT !.q[r].trace = a.trace_log, !.q[r].pc = pc]

\* tool_call and observation of each intermediate step
RECURSIVE StepEntries(_)
StepEntries(k) ==
    IF k = 0 THEN <<>> ELSE <<"tool_call", "observation">> \o StepEntries(k - 1)

\* process_query up to its first await: clear_trace, three thoughts, then
\* agent_wrapper.agent.ainvoke is awaited
QueryReceive(r) ==
    /\ agent.q[r].pc = "idle"
    /\ agent' = [LogTrace(ClearTrace(agent), r, <<"thought", "thought", "thought">>)
                    EXCEPT !.q[r].pc = "agent"]
    /\ UNCHANGED <<server, level, recent, permits, sent, calls, health, cmp, pager>>

\* ainvoke ended: with a result of k intermediate steps, with a schema
\* validation error (the query is then sent to the model directly), or with
\* another error (HTTP 500 with the trace in its detail)
QueryAgentDone(r, kind, k) ==
    /\ agent.q[r].pc = "agent"
    /\ agent' =
          CASE kind = "ok" ->
                 AnswerTrace(LogTrace(agent, r, StepEntries(k) \o <<"observation">>),
                             r, "done")
            [] kind = "schema" ->
                 [LogTrace(agent, r, <<"error">>) EXCEPT !.q[r].pc = "llm"]
            [] OTHER ->
                 AnswerTrace(LogTrace(agent, r, <<"error">>), r, "failed")
    /\ UNCHANGED <<server, level, recent, permits, sent, calls, health, cmp, pager>>

\* llm.ainvoke of the schema-error branch ended
QueryLlmDone(r, ok) ==
    /\ agent.q[r].pc = "llm"
    /\ agent' = IF ok
                THEN AnswerTrace(LogTrace(agent, r, <<"observation">>), r, "done")
                ELSE AnswerTrace(LogTrace(agent, r, <<"error">>), r, "failed")
    /\ UNCHANGED <<server, level, recent, permits, sent, calls, health, cmp, pager>>

AgentOutcomes == {"ok", "schema", "error"}

NextAgent ==
    \/ \E r \in Queries : QueryReceive(r)
    \/ \E r \in Queries, kind \in AgentOutcomes, k \in 0 .. MaxSteps :
          QueryAgentDone(r, kind, k)
    \/ \E r \in Queries, ok \in BOOLEAN : QueryLlmDone(r, ok)

SpecAgent == Init /\ [][NextAgent]_vars

\* ----------------------------------------------------------------- claims
AllOf(h, r) == h # <<>> /\ \A i \in 1 .. Len(h) : h[i] = r
Schedule(n) == [i \in 1 .. n |-> RETRY_DELAY_BASE * (2 ^ (i - 1))]

\* C1: the requests that retry_github_request issued within any window of
\* one limiter period (half-open, MAX_RATE = 1 permit per TIME_PERIOD = 1 s),
\* summed over all the concurrent logical calls, never exceed MAX_RATE.
\* recent holds the requests issued less than one period before now.
C1_RateBudget == Len(recent) <= MAX_RATE

\* a retrying call has just been granted a permit while another call, which
\* already sent a request and is past its backoff, waits for the limiter
C1_Witness ==
    /\ \E c \in Calls : calls[c].pc = "inflight" /\ calls[c].attempt >= 1
    /\ \E c \in Calls : /\ calls[c].pc = "loop" /\ calls[c].attempt >= 1
                         /\ calls[c].timer = 0 /\ ~HasCapacity(level)
    /\ recent = <<0>>
    /\ sent >= 3

\* C2: when every response of a call carries the same retryable status and
\* max_retries = N >= 1, the call issues exactly N requests and then raises
\* the error of the N-th response; it never ends earlier or returns.
C2_RetryableExhausts ==
    \A c \in Calls : \A s \in RETRYABLE_STATUS_CODES :
        LET k == calls[c] IN
        (k.max_retries >= 1 /\ AllOf(k.hist, Resp(s))) =>
            /\ k.reqs <= k.max_retries
            /\ (Len(k.hist) < k.max_retries => ~Terminal(k))
            /\ (Len(k.hist) = k.max_retries =>
                    /\ k.pc = "raised"
                    /\ k.reqs = k.max_retries
                    /\ k.outcome = [kind |-> "raise", res |-> Resp(s)])

C2_Witness ==
    /\ calls[1].pc = "raised"
    /\ calls[1].max_retries = 3
    /\ calls[1].hist = <<Resp(429), Resp(429), Resp(429)>>
    /\ calls[1].reqs = 3

\* C3: a response with a non-2xx status outside the retryable set ends the
\* call at once, for every max_retries >= 1: one request, no backoff sleep,
\* no retry notification, and the error of that response is raised.
C3_TerminalStatusNoRetry ==
    \A c \in Calls :
        LET k == calls[c] IN
        (k.hist # <<>> /\ IsResponse(k.hist[1]) /\ ~IsSuccess(k.hist[1])
            /\ ~IsRetryableStatus(k.hist[1])) =>
            /\ k.pc = "raised"
            /\ k.reqs = 1
            /\ Len(k.hist) = 1
            /\ k.sleeps = <<>>
            /\ k.retryNotes = 0
            /\ k.outcome = [kind |-> "raise", res |-> k.hist[1]]

C3_Witness ==
    /\ calls[1].pc = "raised"
    /\ calls[1].max_retries = 3
    /\ calls[1].ctx
    /\ calls[1].hist = <<Resp(404)>>

\* C4: within one call the attempts are strictly ordered: at most one request
\* is in flight, the backoff requested after attempt i (0-based) is exactly
\* RETRY_DELAY_BASE * 2^i seconds, attempt i+1 is issued only after that
\* time has passed since attempt i concluded, and no backoff follows the
\* final attempt.
C4_BackoffOrder ==
    \A c \in Calls :
        LET k == calls[c] IN
        /\ k.reqs = Len(k.hist) + (IF k.pc = "inflight" THEN 1 ELSE 0)
        /\ k.sleeps = Schedule(Len(k.sleeps))
        /\ Len(k.gaps) = (IF k.reqs = 0 THEN 0 ELSE k.reqs - 1)
        /\ \A i \in 1 .. Len(k.gaps) :
               k.gaps[i] >= RETRY_DELAY_BASE * (2 ^ (i - 1)) * TicksPerSec
        /\ (Terminal(k) /\ k.reqs >= 1 => Len(k.sleeps) = k.reqs - 1)
        /\ (k.max_retries >= 1 => Len(k.sleeps) <= k.max_retries - 1)

\* the third attempt was issued after the 1 s and the 2 s backoff
C4_Witness ==
    /\ calls[1].reqs = 3
    /\ calls[1].sleeps = <<1, 2>>
    /\ Len(calls[1].gaps) = 2
    /\ Terminal(calls[1])

\* C5: when the first k attempts end in a transient failure (retryable
\* status, timeout or connection error) and k < max_retries, the call goes
\* on to attempt k+1; when that attempt returns a 2xx response the call
\* returns that response after exactly k+1 requests and k backoff sleeps.
C5_SuccessAfterTransient ==
    \A c \in Calls :
        LET k == calls[c]
            n == Len(k.hist) IN
        /\ (n >= 1 /\ n < k.max_retries /\ \A i \in 1 .. n : IsTransient(k.hist[i]))
              => ~Terminal(k) /\ Len(k.sleeps) = n
        /\ (n >= 1 /\ IsSuccess(k.hist[n]) /\ \A i \in 1 .. n - 1 : IsTransient(k.hist[i]))
              => /\ k.pc = "returned"
                 /\ k.outcome = [kind |-> "return", res |-> k.hist[n]]
                 /\ k.reqs = n
                 /\ Len(k.sleeps) = n - 1

\* 503, 503, 200 returns the 200 after two sleeps
C5_Witness ==
    /\ calls[1].hist = <<Resp(503), Resp(503), Resp(200)>>
    /\ calls[1].pc = "returned"
    /\ Len(calls[1].sleeps) = 2

\* C6: when every attempt of a call ends in a timeout or a connection
\* failure and max_retries = N >= 1, the call makes exactly N attempts,
\* sleeps the backoff schedule of the retryable statuses between them and
\* raises the exception of the last attempt.
C6_TransportRetried ==
    \A c \in Calls :
        LET k == calls[c]
            n == Len(k.hist) IN
        (k.max_retries >= 1 /\ n >= 1 /\ \A i \in 1 .. n : IsTransportExc(k.hist[i])) =>
            /\ k.reqs <= k.max_retries
            /\ (n < k.max_retries => ~Terminal(k) /\ k.sleeps = Schedule(n))
            /\ (n = k.max_retries =>
                    /\ k.pc = "raised"
                    /\ k.reqs = k.max_retries
                    /\ k.sleeps = Schedule(n - 1)
                    /\ k.outcome = [kind |-> "raise", res |-> k.hist[n]])

C6_Witness ==
    /\ calls[1].pc = "raised"
    /\ calls[1].max_retries = 3
    /\ calls[1].hist = <<Exc("timeout"), Exc("network"), Exc("timeout")>>
    /\ calls[1].outcome.res = Exc("timeout")

\* C7: every invocation, for every max_retries >= 0 and every sequence of
\* upstream results, eventually ends returned or raised, given that permits
\* are granted and requests complete; a call that returned holds a 2xx
\* response and a call that raised holds the failure.
C7_Terminates ==
    /\ [](\A c \in Calls :
            /\ calls[c].pc = "returned" =>
                  calls[c].outcome.kind = "return" /\ IsSuccess(calls[c].outcome.res)
            /\ calls[c].pc = "raised" =>
                  calls[c].outcome.kind = "raise" /\ calls[c].outcome.res # NoResult)
    /\ \A c \in Calls : (calls[c].pc # "idle") ~> Terminal(calls[c])

\* max_retries = 0: the loop body never runs and the generic failure is raised
C7_Witness ==
    /\ calls[1].pc = "raised"
    /\ calls[1].max_retries = 0
    /\ calls[1].outcome = [kind |-> "raise", res |-> Exhausted]
    /\ sent = 0
\* C8: no permit, no call: every request a tool operation sends to the
\* upstream API has its own permit of the shared limiter, so the requests
\* sent never outnumber the permits acquired.
C8_NoPermitNoCall == sent <= permits
\* C9: compare_repositories lets a list of 2 to 5 well-formed targets through
\* to the fan-out (one task per target) and rejects a list shorter than 2 or
\* longer than 5 with McpError(code=-32602) before a permit is acquired or a
\* request is sent; no task of a rejected call ever exists.
C9_ListLengthValidated ==
    LET n == Len(cmp.repositories) IN
    cmp.pc # "idle" =>
        /\ (n < 2 \/ n > 5) =>
              /\ cmp.pc = "error"
              /\ cmp.code = INVALID_PARAMS
              /\ cmp.cause \in {"env", "length"}
              /\ cmp.tasks = <<>>
              /\ permits = 0
              /\ sent = 0
        /\ (n >= 2 /\ n <= 5 /\ cmp.token /\ \A i \in 1 .. n : cmp.repositories[i].keys) =>
              /\ cmp.cause \notin {"env", "length", "keys"}
              /\ Len(cmp.tasks) = n
        /\ cmp.cause = "length" => (n < 2 \/ n > 5)

\* a list of six targets is rejected for its length with the token configured
C9_Witness ==
    /\ cmp.pc = "error"
    /\ cmp.token
    /\ Len(cmp.repositories) = 6
    /\ cmp.cause = "length"
    /\ cmp.code = INVALID_PARAMS
    /\ sent = 0

\* C10: when some targets of a comparison fail and others succeed, the
\* metrics of the returned result hold a slot for every submitted target,
\* the failed ones included.
C10_EverySlotKept ==
    (/\ cmp.pc = "done"
     /\ \E i \in 1 .. Len(cmp.tasks) : cmp.tasks[i].st = "failed"
     /\ \E i \in 1 .. Len(cmp.tasks) : cmp.tasks[i].st = "succeeded") =>
        \A m \in 1 .. Len(cmp.out.metrics) :
            \A i \in 1 .. Len(cmp.repositories) :
                cmp.repositories[i].name \in DictKeys(cmp.out.metrics[m].val)
\* the value of summary entry e, <<>> when the summary has no such entry
SummaryOf(e) ==
    IF e \in DictKeys(cmp.out.summary)
    THEN <<cmp.out.summary[DictGet(cmp.out.summary, e)].val>> ELSE <<>>
Succeeded == {i \in 1 .. Len(cmp.tasks) : cmp.tasks[i].st = "succeeded"}
Failed == {i \in 1 .. Len(cmp.tasks) : cmp.tasks[i].st = "failed"}
Aggregated == cmp.pc \notin {"idle", "gather"} /\ cmp.tasks # <<>>

\* C11: once the aggregate of a comparison with at least one successful
\* target is built, the call has ended normally (the ranking step did not
\* raise) and every entry of the summary names a target whose task succeeded.
C11_RankingsIgnoreFailed ==
    (Aggregated /\ Succeeded # {}) =>
        /\ cmp.pc = "done"
        /\ \A j \in 1 .. Len(cmp.out.summary) :
              \E i \in Succeeded : cmp.tasks[i].name = cmp.out.summary[j].val

\* the first target failed, a later one succeeded, all three rankings are there
C11_Witness ==
    /\ cmp.pc = "done"
    /\ 1 \in Failed
    /\ Succeeded # {}
    /\ Len(cmp.out.summary) = 3
\* C12: when every target of a comparison has failed, compare_repositories
\* ends with a normal result (no error) whose summary names no target.
C12_AllFailedIsNormal ==
    (Aggregated /\ Succeeded = {}) =>
        /\ cmp.pc = "done"
        /\ cmp.out.summary = <<>>
\* the successful targets whose last commit is known, and the first of them
\* in input order among those with the smallest age
Dated == {i \in Succeeded : cmp.tasks[i].data.last_commit_age_days # <<>>}
AgeOf(i) == cmp.tasks[i].data.last_commit_age_days[1]
Youngest == CHOOSE i \in Dated :
                /\ \A j \in Dated : AgeOf(i) <= AgeOf(j)
                /\ \A j \in Dated : j < i => AgeOf(j) > AgeOf(i)

DistinctTargets ==
    \A i, j \in 1 .. Len(cmp.repositories) :
        i # j => cmp.repositories[i].name # cmp.repositories[j].name

\* C13: in a result over distinct targets that ranks last_commit_age,
\* most_active is the first target in input order among the successful
\* targets with the smallest last-commit age in days, an age of 0 included.
C13_MostActiveIsYoungest ==
    (cmp.pc = "done" /\ DistinctTargets /\ Dated # {}
        /\ SummaryOf("most_active") # <<>>) =>
        SummaryOf("most_active") = <<cmp.tasks[Youngest].name>>

\* the first successful target in input order among those with the most
\* stars (forks)
Top(field) == CHOOSE i \in Succeeded :
                /\ \A j \in Succeeded : cmp.tasks[i].data[field] >= cmp.tasks[j].data[field]
                /\ \A j \in Succeeded : j < i => cmp.tasks[j].data[field] < cmp.tasks[i].data[field]

\* C14: most_popular is the first target in input order among the successful
\* targets with the maximum star count, most_forked likewise for the fork
\* count.
C14_MostPopularMostForked ==
    (cmp.pc = "done" /\ Succeeded # {}) =>
        /\ SummaryOf("most_popular") # <<>> =>
              SummaryOf("most_popular") = <<cmp.tasks[Top("stars_count")].name>>
        /\ SummaryOf("most_forked") # <<>> =>
              SummaryOf("most_forked") = <<cmp.tasks[Top("forks_count")].name>>

\* five targets succeeded: 2 and 4 tie on the most stars, 2 and 5 on the
\* most forks, and the earlier one is named
C14_Witness ==
    /\ cmp.pc = "done"
    /\ Succeeded = 1 .. 5
    /\ cmp.tasks[2].data.stars_count = cmp.tasks[4].data.stars_count
    /\ cmp.tasks[2].data.forks_count = cmp.tasks[5].data.forks_count
    /\ SummaryOf("most_popular") = <<cmp.tasks[2].name>>
    /\ SummaryOf("most_forked") = <<cmp.tasks[2].name>>
\* C15: the aggregate of a comparison is built only when every task has
\* ended as succeeded or failed; a step of one task leaves every other task
\* as it was, so a failure cancels no sibling, and a task that has ended
\* keeps its result; every task of a comparison that fanned out ends.
C15_FanOutIsolation ==
    /\ [](Aggregated => \A i \in 1 .. Len(cmp.tasks) :
                            cmp.tasks[i].st \in {"succeeded", "failed"})
    /\ [][cmp.pc = "gather" =>
            /\ Len(cmp'.tasks) = Len(cmp.tasks)
            /\ \A i \in 1 .. Len(cmp.tasks) :
                  cmp.tasks[i].st # "pending" => cmp'.tasks[i] = cmp.tasks[i]
            /\ \A i, j \in 1 .. Len(cmp.tasks) :
                  (i # j /\ cmp'.tasks[i] # cmp.tasks[i]) => cmp'.tasks[j] = cmp.tasks[j]]_vars
    /\ (cmp.pc = "gather") ~>
            \A i \in 1 .. Len(cmp.tasks) : cmp.tasks[i].st \in {"succeeded", "failed"}

\* the first task failed on its metadata call, the second ran its three
\* sub-calls and succeeded, and the aggregate was built
C15_Witness ==
    /\ cmp.pc = "done"
    /\ 1 \in Failed
    /\ 2 \in Succeeded
    /\ cmp.tasks[2].subcalls = <<"meta", "prs", "commits">>
    /\ cmp.notified = <<1>>
\* the names of the metrics reported
Reported == DictKeys(cmp.out.metrics)
NamesOf(names) == {names[k] : k \in 1 .. Len(names)}
\* the rankings a list of metric names asks for
RankingsOf(names) ==
    {Leaders[n].entry : n \in {n \in 1 .. Len(Leaders) : Leaders[n].metric \in NamesOf(names)}}

\* C16 as stated: whenever a metrics list is provided the metrics reported
\* are exactly the listed ones, with a ranking only for a listed metric;
\* when none is provided the six default metrics are reported.
C16_ProvidedListRestricts ==
    cmp.pc = "done" =>
        IF cmp.metrics.given
        THEN /\ Reported = NamesOf(cmp.metrics.names)
             /\ DictKeys(cmp.out.summary) = RankingsOf(cmp.metrics.names)
        ELSE Reported = NamesOf(DefaultMetrics)

\* C16: when a non-empty metrics list is provided the metrics reported are
\* exactly the listed ones, with a ranking for exactly the listed metrics
\* among last_commit_age, stars and forks; when the list is absent or empty
\* the six default metrics and the three rankings are reported.
C16_MetricNames ==
    cmp.pc = "done" =>
        IF cmp.metrics.given /\ cmp.metrics.names # <<>>
        THEN /\ Reported = NamesOf(cmp.metrics.names)
             /\ DictKeys(cmp.out.summary) = RankingsOf(cmp.metrics.names)
        ELSE /\ Reported = NamesOf(DefaultMetrics)
             /\ DictKeys(cmp.out.summary) = RankingsOf(DefaultMetrics)

\* stars and last_commit_age were asked for: two columns, two rankings, no
\* most_forked
C16_Witness ==
    /\ cmp.pc = "done"
    /\ cmp.metrics = Given(<<"stars", "last_commit_age">>)
    /\ Reported = {"stars", "last_commit_age"}
    /\ DictKeys(cmp.out.summary) = {"most_active", "most_popular"}
\* C17: a tool operation whose upstream call ended in a failure (a final
\* error status, a timeout, a connection error or any other exception)
\* raises an McpError with a code and a message, never the exception itself.
C17_NoRawExceptionCrosses ==
    \A c \in Calls :
        calls[c].crossed # NotCrossed =>
            /\ calls[c].crossed.type = "McpError"
            /\ calls[c].crossed.code \in {INVALID_PARAMS, INTERNAL_ERROR}
            /\ calls[c].crossed.kind # "none"

\* a timeout on the last attempt left the tool as an McpError
C17_Witness ==
    /\ calls[1].pc = "raised"
    /\ calls[1].outcome.res = Exc("timeout")
    /\ calls[1].reqs = MAX_RETRIES
    /\ calls[1].crossed.type = "McpError"

\* the kind of error the claim names for a final failure, "other" for
\* the failures it does not name
NamedKind(r) ==
    IF IsResponse(r)
    THEN IF r.status = 401 THEN "authentication"
         ELSE IF r.status = 403 THEN "authorization"
         ELSE IF r.status = 404 THEN "not_found"
         ELSE IF r.status = 429 THEN "rate_limited"
         ELSE IF r.status >= 500 THEN "server"
         ELSE "other"
    ELSE IF r.exc \in {"timeout", "network"} THEN r.exc
    ELSE "other"
NamedKinds == {"authentication", "authorization", "not_found", "rate_limited",
               "server", "timeout", "network"}

\* C18: the error a tool raises for a final failure is of the kind the
\* failure has: 401 authentication, 403 authorization, 404 not found, 429
\* rate-limited, 5xx upstream server error, timeout, network; any other
\* failure is reported as none of these, in both servers.
C18_ErrorClassification ==
    \A c \in Calls :
        calls[c].crossed # NotCrossed =>
            IF NamedKind(calls[c].outcome.res) = "other"
            THEN calls[c].crossed.kind \notin NamedKinds
            ELSE calls[c].crossed.kind = NamedKind(calls[c].outcome.res)
\* the low-water mark of the server
LowWater == IF server = 1 THEN LOW_WATER_SERVER1 ELSE LOW_WATER_SERVER6

\* C19: the advisory is sent for a response exactly when the response
\* carries the remaining-quota header, its value is below the low-water mark
\* of the server and a sink was supplied; a response without the header
\* gets none.
C19_AdvisoryIffLowHeader ==
    \A c \in Calls :
        calls[c].seen.any =>
            (calls[c].seen.noted <=>
                /\ calls[c].seen.header.present
                /\ calls[c].seen.header.numeric
                /\ calls[c].seen.header.value < LowWater
                /\ calls[c].ctx)
\* C20: two runs of retry_github_request with the same max_retries and the
\* same upstream results, which differ only in the remaining-quota header
\* of the responses and in the sink, have issued the same number of
\* requests, slept the same backoffs and ended with the same outcome once
\* both have ended.
C20_ObservabilityNonInterference ==
    (Terminal(calls[1]) /\ Terminal(calls[2])) =>
        /\ calls[1].reqs = calls[2].reqs
        /\ calls[1].sleeps = calls[2].sleeps
        /\ calls[1].pc = calls[2].pc
        /\ calls[1].outcome = calls[2].outcome
\* the requests issued by the calls 1 .. n
RECURSIVE SumReqs(_)
SumReqs(n) == IF n = 0 THEN 0 ELSE SumReqs(n - 1) + calls[n].reqs

\* C21: the permits taken from the limiter are the attempts of the calls,
\* one each: a step that starts an attempt takes one permit, raises the
\* level of the limiter by the cost of one permit and sends one request, no
\* other step takes a permit, and a call that returned on its first attempt
\* has taken one permit, a second such call one more.
C21_PermitAccounting ==
    /\ [](/\ permits = SumReqs(NumCalls)
          /\ sent = permits
          /\ \A c \in Calls :
                (calls[c].pc = "returned" /\ Len(calls[c].hist) = 1) => calls[c].reqs = 1)
    /\ [][/\ permits' \in {permits, permits + 1}
          /\ permits' = permits + 1 =>
                /\ level' = level + PermitCost
                /\ \E c \in Calls :
                      /\ calls'[c].reqs = calls[c].reqs + 1
                      /\ \A o \in Calls \ {c} : calls'[o] = calls[o]
          /\ permits' = permits => level' <= level]_vars

\* two calls returned on their first attempt: two permits were taken
C21_Witness ==
    /\ calls[1].pc = "returned" /\ Len(calls[1].hist) = 1
    /\ calls[2].pc = "returned" /\ Len(calls[2].hist) = 1
    /\ permits = 2
\* C22: a comparison that passed validation, so that its tasks were
\* launched, holds between 2 and 5 targets that are pairwise distinct, and
\* once the result is built each submitted target has its own entry in
\* every metric column unless its task failed.
C22_DistinctTargets ==
    cmp.pc \in {"gather", "done"} =>
        /\ Len(cmp.repositories) >= MIN_REPOSITORIES
        /\ Len(cmp.repositories) <= MAX_REPOSITORIES
        /\ DistinctTargets
        /\ cmp.pc = "done" =>
              \A m \in 1 .. Len(cmp.out.metrics) :
                  Len(cmp.out.metrics[m].val) = Cardinality(Succeeded)
\* the kinds handle_github_error reports a failure of no specific kind with
CatchAllKinds == {"api", "http", "unexpected"}

\* C23: the message of an McpError of a catch-all kind (an unrecognised
\* exception, an unrecognised HTTP status, the "All retries exhausted"
\* error without a response) holds something of the failure it reports: its
\* description, the text of its response or its status.
C23_CatchAllCarriesCause ==
    \A c \in Calls :
        (calls[c].crossed.type = "McpError" /\ calls[c].crossed.kind \in CatchAllKinds) =>
            calls[c].crossed.carries # "nothing"
\* C24: a comparison invoked while GITHUB_TOKEN is not set ends with an
\* error of the authentication kind, the kind an HTTP 401 is reported with.
C24_MissingTokenIsAuthentication ==
    (cmp.pc = "error" /\ ~cmp.token) =>
        cmp.kind = HandleGithubError(1, Resp(401)).kind
\* C25: the copies of retry_github_request of mcp-server-1 and mcp-server-6,
\* started with the same max_retries >= 1 and given the same upstream
\* results, are at every moment at the same place of the loop, have issued
\* the same number of requests, slept the same delays and ended with the
\* same outcome.
C25_CopiesEquivalent ==
    calls[1].max_retries >= 1 =>
        /\ calls[1].pc = calls[2].pc
        /\ calls[1].attempt = calls[2].attempt
        /\ calls[1].reqs = calls[2].reqs
        /\ calls[1].sleeps = calls[2].sleeps
        /\ calls[1].gaps = calls[2].gaps
        /\ calls[1].outcome = calls[2].outcome

\* both copies ended after a retry, one pair raised and one pair returned
C25_Witness ==
    /\ calls[1].max_retries = MAX_RETRIES
    /\ calls[1].pc = "raised" /\ calls[2].pc = "raised"
    /\ calls[1].reqs = MAX_RETRIES /\ calls[2].reqs = MAX_RETRIES
    /\ calls[1].outcome.res = Resp(503)
    /\ calls[1].hist = <<Exc("timeout"), Resp(429), Resp(503)>>
\* C26: the error raised after the loop without a kept exception, "All
\* retries exhausted", ends only a call with max_retries <= 0, which took no
\* permit and sent no request; a call with max_retries >= 1 is never at the
\* head of the loop with no iteration left, and ends with the result of its
\* last request (or the ValueError of its header).
C26_FallbackOnlyWithoutAttempts ==
    \A c \in Calls :
        /\ (Terminal(calls[c]) /\ calls[c].outcome.res = Exhausted) =>
               /\ calls[c].max_retries <= 0
               /\ calls[c].reqs = 0
               /\ calls[c].hist = <<>>
        /\ calls[c].max_retries >= 1 =>
               /\ calls[c].pc = "loop" => calls[c].attempt < calls[c].max_retries
               /\ Terminal(calls[c]) =>
                      /\ calls[c].hist # <<>>
                      /\ calls[c].outcome.res \in {Last(calls[c].hist), Exc("ValueError")}

\* a call with max_retries = 0 ended with the fallback, nothing sent
C26_Witness ==
    /\ calls[1].pc = "raised"
    /\ calls[1].outcome.res = Exhausted
    /\ calls[1].max_retries = 0
    /\ permits = 0 /\ sent = 0
\* the sub-calls of fetch_repository_data in the order of the code
SubCallOrder == <<"meta", "prs", "commits">>

\* C27: a task issues its sub-calls in the order metadata, open-PR count,
\* last commit.  It fails exactly when the metadata sub-call ended in a
\* failure, and then issued nothing else; a failure of the open-PR or of the
\* last-commit sub-call leaves it succeeded with the default (0 open PRs, no
\* age of the last commit).
C27_OnlyMetadataFails ==
    /\ [](\A i \in 1 .. Len(cmp.tasks) :
            LET t == cmp.tasks[i]
                p == PayloadOf(t.name)
            IN  /\ t.subcalls = SubSeq(SubCallOrder, 1, Len(t.subcalls))
                /\ t.st = "failed" <=> (t.subcalls = <<"meta">> /\ t.err # NoResult)
                /\ t.st = "failed" => ~IsSuccess(t.err)
                /\ t.st = "succeeded" <=> t.subcalls = SubCallOrder
                /\ t.st = "succeeded" =>
                      /\ t.err = NoResult
                      /\ t.data.open_prs_count \in {0, p.total_count}
                      /\ t.data.last_commit_age_days \in {<<>>, <<p.age>>}
                      /\ t.data.stars_count = p.stargazers_count)
    /\ [][\A i \in 1 .. Len(cmp.tasks) :
            (cmp.pc = "gather" /\ cmp'.pc = "gather" /\ cmp'.tasks[i] # cmp.tasks[i]) =>
                /\ Len(cmp'.tasks[i].subcalls) = Len(cmp.tasks[i].subcalls) + 1
                /\ cmp.tasks[i].subcalls # <<>> => cmp'.tasks[i].st # "failed"]_vars

\* one task failed on its metadata call having issued nothing else, another
\* succeeded although its open-PR and last-commit calls both failed
C27_Witness ==
    /\ cmp.pc = "gather"
    /\ cmp.tasks[1].st = "failed"
    /\ cmp.tasks[1].subcalls = <<"meta">>
    /\ cmp.tasks[1].err = Resp(503)
    /\ cmp.tasks[1].reqs = MAX_RETRIES
    /\ cmp.tasks[2].st = "succeeded"
    /\ cmp.tasks[2].data.open_prs_count = 0
    /\ cmp.tasks[2].data.last_commit_age_days = <<>>
    /\ cmp.tasks[2].reqs = 1 + 1 + MAX_RETRIES
\* C28: the list gather returned has one result per submitted target and
\* its i-th result is the one of the task of the i-th target, whatever the
\* order in which the tasks ended.
C28_ResultsInSubmissionOrder ==
    cmp.results # <<>> =>
        /\ Len(cmp.results) = Len(cmp.repositories)
        /\ \A i \in 1 .. Len(cmp.results) :
              /\ cmp.results[i].name = cmp.repositories[i].name
              /\ cmp.results[i] = cmp.tasks[i]
        /\ \A k \in 1 .. Len(cmp.notified) :
              \E i \in Failed : cmp.notified[k] = cmp.repositories[i].name

\* the tasks of three distinct targets ended out of order, the first failed,
\* the others succeeded, and the results were collected
C28_Witness ==
    /\ cmp.pc = "done"
    /\ cmp.overtaken
    /\ Len(cmp.results) = 3
    /\ DistinctTargets
    /\ cmp.results[1].st = "failed"
    /\ cmp.results[2].st = "succeeded"
    /\ cmp.results[3].st = "succeeded"
\* the pages 1 .. n
PagesUpTo(n) == [i \in 1 .. n |-> i]

\* C29: a paginated loop asks for the pages 1, 2, ... in order, for a next
\* page only after a full page, stops after the first page of fewer than
\* PER_PAGE items, never asks for more than PAGE_LIMIT pages, and ends
\* whatever the upstream answers.
C29_PaginationBounded ==
    /\ [](/\ pager.requested = PagesUpTo(Len(pager.requested))
          /\ Len(pager.requested) <= PAGE_LIMIT
          /\ pager.pc \in {"fetch", "raised"} => pager.page = Len(pager.requested)
          /\ \A i \in 1 .. Len(pager.sizes) :
                i < Len(pager.requested) => pager.sizes[i] >= PER_PAGE
          /\ pager.pc = "done" =>
                /\ Len(pager.sizes) = Len(pager.requested)
                /\ \/ Last(pager.sizes) < PER_PAGE
                   \/ Len(pager.requested) = PAGE_LIMIT
          /\ pager.pc = "fetch" => Len(pager.sizes) = Len(pager.requested) - 1)
    /\ (pager.pc = "fetch") ~> (pager.pc \in {"done", "raised"})

\* a loop stopped at the page limit after PAGE_LIMIT full pages, some of
\* them received after a retry
C29_Witness ==
    /\ pager.pc = "done"
    /\ pager.requested = PagesUpTo(PAGE_LIMIT)
    /\ Last(pager.sizes) = PER_PAGE
    /\ pager.page = PAGE_LIMIT + 1
    /\ permits > PAGE_LIMIT

\* C30: the trace a /api/query request answers with holds exactly the
\* entries logged while that request was processed, in the order they were
\* logged.
C30_TraceIsOwn ==
    \A r \in Queries :
        agent.q[r].pc \in {"done", "failed"} => agent.q[r].trace = agent.q[r].logged
====
